---- MODULE Spec2Model ----
(***************************************************************************)
(* BanditPAM k-medoids engine (src/src/algorithms/banditpam.cpp) as a      *)
(* state machine.  One fit call runs BUILD (k medoid steps, each a         *)
(* confidence-bound loop over n arms) and then SWAP (outer iterations,     *)
(* each a confidence-bound loop over k*n arms).                            *)
(*                                                                         *)
(* Points are integers on a line, so every loss is an integer.  Real       *)
(* quantities (estimates, sigma, ucbs, lcbs) are held in fixed point, in   *)
(* units of 1/Scale; Scale is a multiple of every sample count that can    *)
(* divide a sum, so every mean is exact.  Indices are 0-based as in the    *)
(* code; a matrix is held by its column-major linear index k + n*K.        *)
(***************************************************************************)
EXTENDS Integers, Sequences, FiniteSets, TLC

\* ------------------------------------------------------------------------
\* Bounds of the model
\* ------------------------------------------------------------------------
NPoints == 3
MaxCoord == 2
MaxIterBound == 2
Granularity == 8
\* the larger datasets, on which a confidence-bound loop can run on after
\* some arms were promoted
LoopPoints == 5
LoopCoord == 3

\* Defaults of the engine options (spec section 6).
buildConfidence == 1000
swapConfidence == 1000

\* ------------------------------------------------------------------------
\* Arithmetic
\* ------------------------------------------------------------------------
Abs(x) == IF x < 0 THEN 0 - x ELSE x

RECURSIVE Gcd(_, _)
Gcd(a, b) == IF b = 0 THEN a ELSE Gcd(b, a % b)

RECURSIVE LcmUpTo(_)
LcmUpTo(m) == IF m <= 1 THEN 1
              ELSE LET l == LcmUpTo(m - 1) IN (l * m) \div Gcd(l, m)

\* One unit of distance is Scale fixed-point units.
Scale == LcmUpTo(IF LoopPoints > NPoints THEN LoopPoints ELSE NPoints) * Granularity

\* +infinity of the float vectors: above every loss.
Inf == (IF LoopCoord > MaxCoord THEN LoopCoord ELSE MaxCoord) + 1

\* Value of a vector element that was never written.
Unset == 0 - 1

\* the element of a one-element set
The(S) == CHOOSE x \in S : TRUE

\* a vector with every element computed
Vec(f) == f @@ <<>>

RECURSIVE SqrtSearch(_, _, _)
SqrtSearch(x, lo, hi) ==
  IF lo >= hi THEN lo
  ELSE The({IF mid * mid <= x THEN SqrtSearch(x, mid, hi)
                              ELSE SqrtSearch(x, lo, mid - 1) :
              mid \in {(lo + hi + 1) \div 2}})

\* floor of the square root
ISqrt(x) ==
  The({SqrtSearch(v, 0, IF v < 46340 THEN v ELSE 46340) : v \in {x}})

RECURSIVE FloorLog2(_)
FloorLog2(x) == IF x < 2 THEN 0 ELSE 1 + FloorLog2(x \div 2)

RECURSIVE Pow2(_)
Pow2(e) == IF e = 0 THEN 1 ELSE 2 * Pow2(e - 1)

\* i fractional bits of log2 of the mantissa x / 4096 in [1, 2)
RECURSIVE Log2Frac(_, _)
Log2Frac(x, i) ==
  IF i = 0 THEN 0
  ELSE The({IF sq >= 8192 THEN Pow2(i - 1) + Log2Frac(sq \div 2, i - 1)
                           ELSE Log2Frac(sq, i - 1) :
              sq \in {(x * x) \div 4096}})

\* arma::log of a positive integer, in units of 1/64
LogFix(p) ==
  The({((e * 64 + Log2Frac((p * 4096) \div Pow2(e), 6)) * 693) \div 1000 :
         e \in {FloorLog2(p)}})

RECURSIVE SumTo(_, _)
SumTo(s, n) == IF n = 0 THEN 0 ELSE s[n] + SumTo(s, n - 1)

\* arma::sum of a vector
SeqSum(s) == SumTo(s, Len(s))

\* arma::stddev of a sample of integers (normalised by size - 1; 0 for a
\* single element), in fixed point
stddev(sample) ==
  IF Len(sample) <= 1 THEN 0
  ELSE The({ISqrt((Scale * Scale * (m.B * m.s2 - m.s1 * m.s1))
                    \div (m.B * (m.B - 1))) :
              m \in {[B |-> Len(sample),
                      s1 |-> SeqSum(sample),
                      s2 |-> SeqSum([j \in 1..Len(sample) |->
                                       sample[j] * sample[j]])]}})

\* sigma * sqrt(log(p) / numSamples), in fixed point
confBoundDelta(sig, p, T) ==
  (sig * ISqrt((4096 * LogFix(p)) \div (64 * T))) \div 64

\* ------------------------------------------------------------------------
\* State
\* ------------------------------------------------------------------------
VARIABLES
  pc,                  \* position of the fit call
  data,                \* [0..N-1 -> coordinate]
  nMedoids, batchSize, maxIter, usePerm, useCacheP,   \* options
  algorithm,           \* the algorithm name the engine stores
  fitFn,               \* the fit function the engine runs
  permutation,         \* sequence; permutation[c + 1] is element c
  permutationIdx,      \* cursor of the permutation walk
  cache,               \* [0..n*m-1 -> loss or -1]
  window,              \* <<first, last>> of the last permutation window
  medoid_indices,      \* [0..K-1 -> point index]
  assignments,         \* [0..N-1 -> medoid position]
  k,                   \* BUILD step
  useAbsolute,
  bestDistances, secondBestDistances,
  sigma, estimates, lcbs, ucbs, numSamples, exactMask, candidates,
  iter, swap_performed,
  medoidIndicesBuild, medoidIndicesFinal, labels, steps,
  ref,                 \* what an earlier fit call returned, for comparison
  referencePoints,     \* batch of the sigma pass in progress
  sample,              \* [1..batchSize -> value]: the buffer the workers share
  updated_sigma,       \* [arm -> sigma or -1]: result of the pass in progress
  todo,                \* arms no worker has taken yet
  worker,              \* [thread -> arm, reference and statement it is at]
  n_cols,              \* data.n_cols of a dataset too large to enumerate
  pValue               \* the confidence parameter p as its variable holds it

options == <<nMedoids, batchSize, maxIter, usePerm, useCacheP, algorithm,
            fitFn>>
sampler == <<permutation, permutationIdx, cache, window>>
arms == <<sigma, estimates, lcbs, ucbs, numSamples, exactMask, candidates>>
dists == <<bestDistances, secondBestDistances>>
outputs == <<medoidIndicesBuild, medoidIndicesFinal, labels, steps>>
sigmaPass == <<referencePoints, sample, updated_sigma, todo, worker>>
radius == <<n_cols, pValue>>
vars == <<pc, data, options, sampler, medoid_indices, assignments, k,
          useAbsolute, dists, arms, iter, swap_performed, outputs, ref, sigmaPass, radius>>

N == Cardinality(DOMAIN data)
Points == 0..(N - 1)
BuildArms == 0..(N - 1)
SwapArms == 0..(nMedoids * N - 1)

Fill(dom, v) == [a \in dom |-> v]

\* ------------------------------------------------------------------------
\* DissimilarityOracle
\* ------------------------------------------------------------------------
\* L1 loss of two points (equal to L2 and manhattan on a line)
L1(d, i, j) == Abs(d[i] - d[j])

\* number of pivot columns, min(n, ceil(log10(n) * cacheMultiplier)): log10
\* is 0 for n = 1 and the product exceeds n for every other n of the model
CacheWidth(n) == IF n <= 1 THEN 0 ELSE n

\* reindex[j]: the position of j among the first m entries of the permutation
IsPivot(perm, m, j) == \E c \in 0..(m - 1) : perm[c + 1] = j
Reindex(perm, m, j) == CHOOSE c \in 0..(m - 1) : perm[c + 1] = j

\* loss of (i, j) through the pivot cache
cachedLoss(d, i, j) ==
  IF ~useCacheP THEN L1(d, i, j)
  ELSE LET m == CacheWidth(N)
       IN IF IsPivot(permutation, m, j)
          THEN LET slot == m * i + Reindex(permutation, m, j)
               IN IF cache[slot] = Unset THEN L1(d, i, j) ELSE cache[slot]
          ELSE L1(d, i, j)

\* the cache after the losses of is x js were asked for
CacheStore(is, js) ==
  IF ~useCacheP THEN cache
  ELSE LET m == CacheWidth(N)
       IN [slot \in DOMAIN cache |->
             IF cache[slot] # Unset THEN cache[slot]
             ELSE LET i == slot \div m
                      j == permutation[(slot % m) + 1]
                  IN IF i \in is /\ j \in js THEN L1(data, i, j) ELSE Unset]

\* ------------------------------------------------------------------------
\* ReferenceSampler
\* ------------------------------------------------------------------------
Range(s) == {s[x] : x \in DOMAIN s}

RECURSIVE SortedSeq(_)
SortedSeq(S) ==
  IF S = {} THEN <<>>
  ELSE The({<<lo>> \o SortedSeq(S \ {lo}) :
              lo \in {x \in S : \A y \in S : x <= y}})

\* arma::randperm(n): the bijections of 0..n-1
Perms(n) == {p \in [1..n -> 0..(n - 1)] : \A x, y \in 1..n : p[x] = p[y] => x = y}

\* arma::randperm(n, size): size distinct indices; the sums taken over a batch
\* do not depend on its order, so a batch is kept in ascending order
RandomBatches(n, size) ==
  {SortedSeq(S) : S \in {T \in SUBSET (0..(n - 1)) : Cardinality(T) = size}}

\* One draw of `size` reference points with the cursor at idx: the batch, the
\* cursor after it, the window taken and whether the window lies inside the
\* permutation and names points of the dataset (subvec and data.col are
\* bounds-checked, and arma::randperm(N, size) checks size <= N).
Draws(idx, size) ==
  IF usePerm
  THEN LET p0 == IF idx + size - 1 >= N THEN 0 ELSE idx
           last == p0 + size - 1
           inside == last < Len(permutation)
           refs == IF inside THEN [j \in 1..size |-> permutation[p0 + j]]
                             ELSE <<>>
       IN {[ok |-> inside /\ Range(refs) \subseteq Points,
            refs |-> refs,
            idx |-> IF inside THEN p0 + size ELSE p0,
            window |-> <<p0, last>>]}
  ELSE IF size > N
       THEN {[ok |-> FALSE, refs |-> <<>>, idx |-> idx, window |-> window]}
       ELSE {[ok |-> TRUE, refs |-> r, idx |-> idx, window |-> window] :
               r \in RandomBatches(N, size)}

\* ------------------------------------------------------------------------
\* BUILD
\* ------------------------------------------------------------------------
\* sample of arm i at reference j
BuildArmSample(d, i, j, best, absolute) ==
  LET cost == cachedLoss(d, i, j)
  IN IF absolute THEN cost
     ELSE (IF cost < best[j] THEN cost ELSE best[j]) - best[j]

buildSigma(d, best, absolute, refs) ==
  [i \in BuildArms |->
     stddev([j \in 1..Len(refs) |-> BuildArmSample(d, i, refs[j], best, absolute)])]

\* variant: the estimate is the mean distance in every step
buildTargetAbsolute(d, target, best, absolute, refs) ==
  [i \in target |->
     (Scale * SeqSum([j \in 1..Len(refs) |->
                        BuildArmSample(d, i, refs[j], best, TRUE)]))
       \div Len(refs)]

buildTarget(d, target, best, absolute, refs) ==
  [i \in target |->
     (Scale * SeqSum([j \in 1..Len(refs) |->
                        BuildArmSample(d, i, refs[j], best, absolute)]))
       \div Len(refs)]

\* lowest index of a minimum of f over 0..size-1
RECURSIVE IndexMinFrom(_, _, _, _)
IndexMinFrom(f, size, a, best) ==
  IF a >= size THEN best
  ELSE The({IndexMinFrom(f, size, a + 1, lowest) :
              lowest \in {IF f[a] < f[best] THEN a ELSE best}})

index_min(f) == The({IndexMinFrom(v, Cardinality(DOMAIN v), 1, 0) : v \in {Vec(f)}})

MinOf(f) == f[index_min(f)]

\* No arm is sampled in batches once it holds this many samples (in the
\* code an arm is promoted before it holds N).
SampleCap == 2 * N

NumCandidates == Cardinality({a \in DOMAIN candidates : candidates[a] = 1})

\* variant: promotes only when the next batch would pass N
ComputeExactlyStrict ==
  {a \in DOMAIN numSamples :
     ((numSamples[a] + batchSize) > N) # (exactMask[a] = 1)}

\* variant: without the comparison against exactMask
ComputeExactlyAgain ==
  {a \in DOMAIN numSamples : (numSamples[a] + batchSize) >= N}

\* variant: without exact promotion
ComputeExactlyNever == {}

\* ((numSamples + batchSize) >= N) != exactMask
ComputeExactly ==
  {a \in DOMAIN numSamples :
     ((numSamples[a] + batchSize) >= N) # (exactMask[a] = 1)}

\* variant: an arm whose LCB equals the least UCB stays a candidate
EliminateAbove(lc, uc, ex) ==
  The({[a \in DOMAIN l |-> IF l[a] <= umin /\ ex[a] = 0 THEN 1 ELSE 0] :
         l \in {lc}, umin \in {MinOf(uc)}})

\* (lcbs < ucbs.min()) && (exactMask == 0)
Eliminate(lc, uc, ex) ==
  The({[a \in DOMAIN l |-> IF l[a] < umin /\ ex[a] = 0 THEN 1 ELSE 0] :
         l \in {lc}, umin \in {MinOf(uc)}})

\* variant: the exact-promotion branch of SWAP leaves the candidates alone
PromotionCandidatesKept(lc, uc, ex) == candidates

\* the candidates after the exact-promotion branch of SWAP
PromotionCandidates(lc, uc, ex) == Eliminate(lc, uc, ex)

\* the running average of the sampled arms
RunningAverage(targets, result) ==
  [a \in DOMAIN estimates |->
     IF a \in targets
     THEN ((numSamples[a] * estimates[a]) + (result[a] * batchSize))
            \div (batchSize + numSamples[a])
     ELSE estimates[a]]

Fail ==
  /\ pc' = "failed"
  /\ UNCHANGED <<data, options, permutation, cache, medoid_indices,
                 assignments, k, useAbsolute, dists, arms, iter,
                 swap_performed, outputs, ref, radius, sigmaPass>>

\* fitBanditPAM up to the first BUILD step, with the locals of build: d is
\* the dataset, uc the use_cache option, and perm, idx, ch the permutation,
\* the cursor and the cache the engine holds when fit is called
FitBegin(d, uc, perm, idx, ch) ==
  /\ data' = d
  /\ LET n == Cardinality(DOMAIN d)
     IN /\ IF uc
           THEN /\ cache' = Fill(0..(n * CacheWidth(n) - 1), Unset)
                /\ permutation' \in Perms(n)
                /\ permutationIdx' = 0
           ELSE /\ cache' = ch
                /\ permutation' = perm
                /\ permutationIdx' = idx
        /\ medoid_indices' = Fill(0..(nMedoids - 1), Unset)
        /\ useAbsolute' = TRUE
        /\ estimates' = Fill(0..(n - 1), 0)
        /\ bestDistances' = Fill(0..(n - 1), Inf)
        /\ sigma' = Fill(0..(n - 1), 0)
        /\ candidates' = Fill(0..(n - 1), 1)
        /\ lcbs' = Fill(0..(n - 1), 0)
        /\ ucbs' = Fill(0..(n - 1), 0)
        /\ numSamples' = Fill(0..(n - 1), 0)
        /\ exactMask' = Fill(0..(n - 1), 0)
  /\ k' = 0
  /\ pc' = "build_step"
  /\ UNCHANGED <<window, assignments, secondBestDistances, iter,
                 swap_performed>>

\* fit on a newly constructed engine
Fit(d) ==
  /\ pc = "idle"
  /\ nMedoids <= Cardinality(DOMAIN d)
  /\ batchSize <= Cardinality(DOMAIN d)
  /\ FitBegin(d, useCacheP, permutation, permutationIdx, cache)
  /\ UNCHANGED <<options, outputs, ref, radius, sigmaPass>>

\* head of one BUILD step: reset of the arms and the sigma pass
BuildStep ==
  /\ pc = "build_step"
  /\ k < nMedoids
  /\ \E dr \in Draws(0, batchSize) :
       /\ permutationIdx' = dr.idx
       /\ window' = dr.window
       /\ IF dr.ok
          THEN /\ candidates' = Fill(BuildArms, 1)
               /\ numSamples' = Fill(BuildArms, 0)
               /\ exactMask' = Fill(BuildArms, 0)
               /\ estimates' = Fill(BuildArms, 0)
               /\ sigma' = buildSigma(data, bestDistances, useAbsolute, dr.refs)
               /\ cache' = CacheStore(BuildArms, Range(dr.refs))
               /\ pc' = "build_loop"
               /\ UNCHANGED <<data, options, permutation, medoid_indices,
                              assignments, k, useAbsolute, dists, lcbs, ucbs,
                              iter, swap_performed, outputs, ref, radius, sigmaPass>>
          ELSE Fail

\* loop test and exact promotion of one round of the BUILD loop
BuildPromote ==
  /\ pc = "build_loop"
  /\ NumCandidates >= 1
  /\ LET targets == ComputeExactly
     IN IF targets # {}
        THEN \E dr \in Draws(permutationIdx, N) :
               /\ permutationIdx' = dr.idx
               /\ window' = dr.window
               /\ IF dr.ok
                  THEN \E result \in {Vec(buildTarget(data, targets, bestDistances,
                                                      useAbsolute, dr.refs))} :
                       LET upd(v) == [a \in BuildArms |->
                                        IF a \in targets THEN result[a] ELSE v[a]]
                           cand == [a \in BuildArms |->
                                      IF a \in targets THEN 0 ELSE candidates[a]]
                       IN /\ estimates' = upd(estimates)
                          /\ ucbs' = upd(ucbs)
                          /\ lcbs' = upd(lcbs)
                          /\ exactMask' = [a \in BuildArms |->
                                             IF a \in targets THEN 1 ELSE exactMask[a]]
                          /\ numSamples' = [a \in BuildArms |->
                                              IF a \in targets THEN numSamples[a] + N
                                                               ELSE numSamples[a]]
                          /\ candidates' = cand
                          /\ cache' = CacheStore(targets, Range(dr.refs))
                          /\ pc' = IF \A a \in BuildArms : cand[a] = 0
                                   THEN "build_select" ELSE "build_sample"
                          /\ UNCHANGED <<data, options, permutation,
                                         medoid_indices, assignments, k,
                                         useAbsolute, dists, sigma, iter,
                                         swap_performed, outputs, ref, radius, sigmaPass>>
                  ELSE Fail
        ELSE /\ pc' = "build_sample"
             /\ UNCHANGED <<data, options, sampler, medoid_indices,
                            assignments, k, useAbsolute, dists, arms, iter,
                            swap_performed, outputs, ref, radius, sigmaPass>>

\* the BUILD loop ends with no candidate left
BuildExit ==
  /\ pc = "build_loop"
  /\ NumCandidates = 0
  /\ pc' = "build_select"
  /\ UNCHANGED <<data, options, sampler, medoid_indices, assignments, k,
                 useAbsolute, dists, arms, iter, swap_performed, outputs, ref, radius, sigmaPass>>

\* batched sampling and elimination of one round of the BUILD loop
BuildSample ==
  /\ pc = "build_sample"
  /\ \A a \in BuildArms : candidates[a] = 1 => numSamples[a] < SampleCap
  /\ LET targets == {a \in BuildArms : candidates[a] = 1}
         p == buildConfidence * N
     IN \E dr \in Draws(permutationIdx, batchSize) :
          /\ permutationIdx' = dr.idx
          /\ window' = dr.window
          /\ IF dr.ok
             THEN \E result \in {Vec(buildTarget(data, targets, bestDistances,
                                                 useAbsolute, dr.refs))} :
                  LET est == RunningAverage(targets, result)
                      ns == [a \in BuildArms |->
                               IF a \in targets THEN numSamples[a] + batchSize
                                                ELSE numSamples[a]]
                      delta == [a \in targets |->
                                  confBoundDelta(sigma[a], p, ns[a])]
                      uc == [a \in BuildArms |->
                               IF a \in targets THEN est[a] + delta[a] ELSE ucbs[a]]
                      lc == [a \in BuildArms |->
                               IF a \in targets THEN est[a] - delta[a] ELSE lcbs[a]]
                  IN /\ estimates' = est
                     /\ numSamples' = ns
                     /\ ucbs' = uc
                     /\ lcbs' = lc
                     /\ candidates' = Eliminate(Vec(lc), Vec(uc), exactMask)
                     /\ cache' = CacheStore(targets, Range(dr.refs))
                     /\ pc' = "build_loop"
                     /\ UNCHANGED <<data, options, permutation, medoid_indices,
                                    assignments, k, useAbsolute, dists, sigma,
                                    exactMask, iter, swap_performed, outputs, ref, radius, sigmaPass>>
             ELSE Fail

\* the medoid of the step and the new best distances
BuildSelect ==
  /\ pc = "build_select"
  /\ LET m == index_min(lcbs)
     IN /\ medoid_indices' = [medoid_indices EXCEPT ![k] = m]
        /\ bestDistances' =
             [i \in Points |->
                LET cost == cachedLoss(data, i, m)
                IN IF cost < bestDistances[i] THEN cost ELSE bestDistances[i]]
        /\ cache' = CacheStore(Points, {m})
  /\ useAbsolute' = FALSE
  /\ k' = k + 1
  /\ pc' = "build_step"
  /\ UNCHANGED <<data, options, permutation, permutationIdx, window,
                 assignments, secondBestDistances, arms, iter, swap_performed,
                 outputs, ref, radius, sigmaPass>>

\* fit between build and swap, with the locals of swap
SwapEntry ==
  /\ pc = "build_step"
  /\ k = nMedoids
  /\ steps' = 0
  /\ medoidIndicesBuild' = medoid_indices
  /\ assignments' = Fill(Points, Unset)
  /\ sigma' = Fill(SwapArms, 0)
  /\ bestDistances' = Fill(Points, 0)
  /\ secondBestDistances' = Fill(Points, 0)
  /\ iter' = 0
  /\ swap_performed' = TRUE
  /\ candidates' = Fill(SwapArms, 1)
  /\ exactMask' = Fill(SwapArms, 0)
  /\ estimates' = Fill(SwapArms, 0)
  /\ lcbs' = Fill(SwapArms, 0)
  /\ ucbs' = Fill(SwapArms, 0)
  /\ numSamples' = Fill(SwapArms, 0)
  /\ pc' = "swap_head"
  /\ UNCHANGED <<data, options, sampler, medoid_indices, k, useAbsolute,
                 medoidIndicesFinal, labels, ref, radius, sigmaPass>>

\* ------------------------------------------------------------------------
\* SWAP
\* ------------------------------------------------------------------------
\* variant: a medoid as near as the best one so far takes the point over
RECURSIVE ScanMedoidsLastWins(_, _, _, _, _)
ScanMedoidsLastWins(d, M, i, kk, acc) ==
  IF kk >= Cardinality(DOMAIN M) THEN acc
  ELSE LET cost == L1(d, M[kk], i)
       IN The({ScanMedoidsLastWins(d, M, i, kk + 1, next) :
                 next \in {IF cost <= acc.best
                           THEN [best |-> cost, second |-> acc.best, assign |-> kk]
                           ELSE IF cost < acc.second
                                THEN [acc EXCEPT !.second = cost]
                                ELSE acc}})

\* best and second-best distance of point i and the position of its medoid,
\* scanning the medoid positions kk, kk+1, ... in order
RECURSIVE ScanMedoids(_, _, _, _, _)
ScanMedoids(d, M, i, kk, acc) ==
  IF kk >= Cardinality(DOMAIN M) THEN acc
  ELSE LET cost == L1(d, M[kk], i)
       IN The({ScanMedoids(d, M, i, kk + 1, next) :
                 next \in {IF cost < acc.best
                           THEN [best |-> cost, second |-> acc.best, assign |-> kk]
                           ELSE IF cost < acc.second
                                THEN [acc EXCEPT !.second = cost]
                                ELSE acc}})

calcBestDistancesSwap(d, M, assign) ==
  [i \in DOMAIN d |->
     ScanMedoids(d, M, i, 0, [best |-> Inf, second |-> Inf, assign |-> assign[i]])]

\* variant: the second-best distance is never used
SwapArmSampleBestOnly(d, n, kk, j, best, second, assign) ==
  LET cost == cachedLoss(d, n, j)
  IN (IF cost < best[j] THEN cost ELSE best[j]) - best[j]

\* sample of the swap arm (kk, n) at reference j
SwapArmSample(d, n, kk, j, best, second, assign) ==
  LET cost == cachedLoss(d, n, j)
  IN (IF kk = assign[j]
      THEN (IF cost < second[j] THEN cost ELSE second[j])
      ELSE (IF cost < best[j] THEN cost ELSE best[j])) - best[j]

swapSigma(d, best, second, assign, refs) ==
  [a \in SwapArms |->
     stddev([j \in 1..Len(refs) |->
               SwapArmSample(d, a \div nMedoids, a % nMedoids, refs[j],
                             best, second, assign)])]

swapTarget(d, K, targets, best, second, assign, refs) ==
  [a \in targets |->
     (Scale * SeqSum([j \in 1..Len(refs) |->
                        SwapArmSample(d, a \div K, a % K, refs[j],
                                      best, second, assign)]))
       \div Len(refs)]

\* variant: one more iteration than maxIter
SwapContinuesOneMore(performed, it, limit) == performed /\ it <= limit

\* while (swap_performed && iter < maxIter)
SwapContinues(performed, it, limit) == performed /\ it < limit

\* variant: steps counts only the iterations that changed the medoids
StepsAfterSwap(st, performed) == IF performed THEN st + 1 ELSE st

\* steps++
StepsAfterIteration(st, performed) == st + 1

\* head of one SWAP outer iteration: b, s, A, the sigma pass, reset of arms
SwapStep ==
  /\ pc = "swap_head"
  /\ SwapContinues(swap_performed, iter, maxIter)
  /\ iter' = iter + 1
  /\ \E bsa \in {Vec(calcBestDistancesSwap(data, medoid_indices, assignments))} :
     LET best == [i \in Points |-> bsa[i].best]
         second == [i \in Points |-> bsa[i].second]
         assign == [i \in Points |-> bsa[i].assign]
     IN \E dr \in Draws(0, batchSize) :
          /\ permutationIdx' = dr.idx
          /\ window' = dr.window
          /\ bestDistances' = best
          /\ secondBestDistances' = second
          /\ assignments' = assign
          /\ IF dr.ok
             THEN /\ sigma' = swapSigma(data, best, second, assign, dr.refs)
                  /\ candidates' = Fill(SwapArms, 1)
                  /\ exactMask' = Fill(SwapArms, 0)
                  /\ estimates' = Fill(SwapArms, 0)
                  /\ numSamples' = Fill(SwapArms, 0)
                  /\ cache' = CacheStore(Points, Range(dr.refs))
                  /\ pc' = "swap_loop"
                  /\ UNCHANGED <<lcbs, ucbs>>
             ELSE /\ pc' = "failed"
                  /\ UNCHANGED <<cache, arms>>
  /\ UNCHANGED <<data, options, permutation, medoid_indices, k, useAbsolute,
                 swap_performed, outputs, ref, radius, sigmaPass>>

\* loop test and exact promotion of one round of the SWAP loop
SwapPromote ==
  /\ pc = "swap_loop"
  /\ NumCandidates >= 1
  /\ \E bsa \in {Vec(calcBestDistancesSwap(data, medoid_indices, assignments))} :
     LET best == [i \in Points |-> bsa[i].best]
         second == [i \in Points |-> bsa[i].second]
         assign == [i \in Points |-> bsa[i].assign]
         targets == ComputeExactly
     IN /\ bestDistances' = best
        /\ secondBestDistances' = second
        /\ assignments' = assign
        /\ IF targets # {}
           THEN \E dr \in Draws(permutationIdx, N) :
                  /\ permutationIdx' = dr.idx
                  /\ window' = dr.window
                  /\ IF dr.ok
                     THEN \E result \in {Vec(swapTarget(data, nMedoids, targets, best,
                                                        second, assign, dr.refs))} :
                          LET upd(v) == [a \in SwapArms |->
                                           IF a \in targets THEN result[a] ELSE v[a]]
                              ex == [a \in SwapArms |->
                                       IF a \in targets THEN 1 ELSE exactMask[a]]
                          IN \E cand \in {PromotionCandidates(Vec(upd(lcbs)),
                                                               Vec(upd(ucbs)), ex)} :
                             /\ estimates' = upd(estimates)
                             /\ ucbs' = upd(ucbs)
                             /\ lcbs' = upd(lcbs)
                             /\ exactMask' = ex
                             /\ numSamples' = [a \in SwapArms |->
                                                 IF a \in targets
                                                 THEN numSamples[a] + N
                                                 ELSE numSamples[a]]
                             /\ candidates' = cand
                             /\ cache' = CacheStore({a \div nMedoids : a \in targets},
                                                    Range(dr.refs))
                             /\ pc' = IF \A a \in SwapArms : cand[a] = 0
                                      THEN "swap_select" ELSE "swap_sample"
                             /\ UNCHANGED sigma
                     ELSE /\ pc' = "failed"
                          /\ UNCHANGED <<cache, arms>>
           ELSE /\ pc' = "swap_sample"
                /\ UNCHANGED <<sampler, arms>>
  /\ UNCHANGED <<data, options, permutation, medoid_indices, k, useAbsolute,
                 iter, swap_performed, outputs, ref, radius, sigmaPass>>

\* the SWAP loop ends with no candidate left
SwapExit ==
  /\ pc = "swap_loop"
  /\ NumCandidates = 0
  /\ pc' = "swap_select"
  /\ UNCHANGED <<data, options, sampler, medoid_indices, assignments, k,
                 useAbsolute, dists, arms, iter, swap_performed, outputs, ref, radius, sigmaPass>>

\* batched sampling and elimination of one round of the SWAP loop
SwapSample ==
  /\ pc = "swap_sample"
  /\ \A a \in SwapArms : candidates[a] = 1 => numSamples[a] < SampleCap
  /\ LET targets == {a \in SwapArms : candidates[a] = 1}
         p == N * nMedoids * swapConfidence
     IN \E dr \in Draws(permutationIdx, batchSize) :
          /\ permutationIdx' = dr.idx
          /\ window' = dr.window
          /\ IF dr.ok
             THEN \E result \in {Vec(swapTarget(data, nMedoids, targets,
                                                bestDistances, secondBestDistances,
                                                assignments, dr.refs))} :
                  LET est == RunningAverage(targets, result)
                      ns == [a \in SwapArms |->
                               IF a \in targets THEN numSamples[a] + batchSize
                                                ELSE numSamples[a]]
                      delta == [a \in targets |->
                                  confBoundDelta(sigma[a], p, ns[a])]
                      uc == [a \in SwapArms |->
                               IF a \in targets THEN est[a] + delta[a] ELSE ucbs[a]]
                      lc == [a \in SwapArms |->
                               IF a \in targets THEN est[a] - delta[a] ELSE lcbs[a]]
                  IN /\ estimates' = est
                     /\ numSamples' = ns
                     /\ ucbs' = uc
                     /\ lcbs' = lc
                     /\ candidates' = Eliminate(Vec(lc), Vec(uc), exactMask)
                     /\ cache' = CacheStore({a \div nMedoids : a \in targets},
                                            Range(dr.refs))
                     /\ pc' = "swap_loop"
                     /\ UNCHANGED <<data, options, permutation, medoid_indices,
                                    assignments, k, useAbsolute, dists, sigma,
                                    exactMask, iter, swap_performed, outputs, ref, radius, sigmaPass>>
             ELSE Fail

\* the swap of the iteration, then b, s, A of the new medoids
SwapSelect ==
  /\ pc = "swap_select"
  /\ LET new_medoid == index_min(lcbs)
         kk == new_medoid % nMedoids
         n == new_medoid \div nMedoids
         performed == medoid_indices[kk] # n
         M == [medoid_indices EXCEPT ![kk] = n]
         bsa == calcBestDistancesSwap(data, M, assignments)
     IN /\ swap_performed' = performed
        /\ steps' = StepsAfterIteration(steps, performed)
        /\ medoid_indices' = M
        /\ bestDistances' = [i \in Points |-> bsa[i].best]
        /\ secondBestDistances' = [i \in Points |-> bsa[i].second]
        /\ assignments' = [i \in Points |-> bsa[i].assign]
  /\ pc' = "swap_head"
  /\ UNCHANGED <<data, options, sampler, k, useAbsolute, arms, iter,
                 medoidIndicesBuild, medoidIndicesFinal, labels, ref, radius, sigmaPass>>

\* values an unsigned vector that was never written can hold: memory filled
\* with one value, a medoid position or not
Garbage(dom) == {Fill(dom, v) : v \in 0..nMedoids}

\* swap returns; fit stores the final medoids and the labels
FitReturn ==
  /\ pc = "swap_head"
  /\ ~SwapContinues(swap_performed, iter, maxIter)
  /\ medoidIndicesFinal' = medoid_indices
  /\ labels' \in (IF \E i \in Points : assignments[i] = Unset
                  THEN Garbage(Points) ELSE {assignments})
  /\ pc' = "done"
  /\ UNCHANGED <<data, options, sampler, medoid_indices, assignments, k,
                 useAbsolute, dists, arms, iter, swap_performed,
                 medoidIndicesBuild, steps, ref, radius, sigmaPass>>

\* ------------------------------------------------------------------------
\* Specification: one engine, one fit call
\* ------------------------------------------------------------------------
\* The loss depends on differences of coordinates only: the least
\* coordinate of a dataset is 0.
Datasets ==
  {d \in [0..(NPoints - 1) -> 0..MaxCoord] : \E i \in DOMAIN d : d[i] = 0}

\* fit function checkAlgorithm selects for an algorithm name
checkAlgorithm(name) ==
  IF name = "BanditPAM" THEN "fit_bpam"
  ELSE IF name = "naive" THEN "fit_naive"
  ELSE "throw"

InitState ==
  /\ pc = "idle"
  /\ data = <<>>
  /\ permutation = <<>>
  /\ permutationIdx = 0
  /\ cache = <<>>
  /\ window = <<>>
  /\ medoid_indices = <<>>
  /\ assignments = <<>>
  /\ k = 0
  /\ useAbsolute = TRUE
  /\ bestDistances = <<>>
  /\ secondBestDistances = <<>>
  /\ sigma = <<>>
  /\ estimates = <<>>
  /\ lcbs = <<>>
  /\ ucbs = <<>>
  /\ numSamples = <<>>
  /\ exactMask = <<>>
  /\ candidates = <<>>
  /\ iter = 0
  /\ swap_performed = FALSE
  /\ medoidIndicesBuild = <<>>
  /\ medoidIndicesFinal = <<>>
  /\ labels = <<>>
  /\ steps = 0
  /\ ref = <<>>
  /\ referencePoints = <<>>
  /\ sample = <<>>
  /\ updated_sigma = <<>>
  /\ todo = {}
  /\ worker = <<>>
  /\ n_cols = 0
  /\ pValue = 0

\* an engine constructed for the BanditPAM algorithm
InitEngine ==
  /\ InitState
  /\ algorithm = "BanditPAM"
  /\ fitFn = checkAlgorithm(algorithm)

\* Without the permutation walk the pivot cache only decides where a loss is
\* stored, so the uniform sampler is run with the cache off.
Init ==
  /\ InitEngine
  /\ nMedoids \in 1..NPoints
  /\ batchSize \in 1..NPoints
  /\ maxIter \in 0..MaxIterBound
  /\ usePerm \in BOOLEAN
  /\ useCacheP \in BOOLEAN
  /\ useCacheP => usePerm

Next ==
  \/ \E d \in Datasets : Fit(d)
  \/ BuildStep
  \/ BuildPromote
  \/ BuildExit
  \/ BuildSample
  \/ BuildSelect
  \/ SwapEntry
  \/ SwapStep
  \/ SwapPromote
  \/ SwapExit
  \/ SwapSample
  \/ SwapSelect
  \/ FitReturn

Spec == Init /\ [][Next]_vars

\* ------------------------------------------------------------------------
\* Specification: a fit call with the cache on, then the same call with the
\* cache off
\* ------------------------------------------------------------------------
\* A second fit call on the same dataset with use_cache switched, on the same
\* engine or (fresh) on a newly constructed one; ref keeps what the first call
\* returned.
Rerun(fresh) ==
  /\ pc = "done"
  /\ ref = <<>>
  /\ ref' = [permutation |-> permutation,
             medoidIndicesBuild |-> medoidIndicesBuild,
             medoidIndicesFinal |-> medoidIndicesFinal,
             labels |-> labels]
  /\ useCacheP' = ~useCacheP
  /\ FitBegin(data, ~useCacheP,
              IF fresh THEN <<>> ELSE permutation,
              IF fresh THEN 0 ELSE permutationIdx,
              IF fresh THEN <<>> ELSE cache)
  /\ UNCHANGED <<nMedoids, batchSize, maxIter, usePerm, algorithm, fitFn,
                 outputs, sigmaPass, radius>>

InitCache ==
  /\ InitEngine
  /\ nMedoids \in 1..NPoints
  /\ batchSize \in 1..NPoints
  /\ maxIter \in 1..MaxIterBound
  /\ usePerm = TRUE
  /\ useCacheP = TRUE

NextCache == Next \/ \E fresh \in BOOLEAN : Rerun(fresh)

SpecCache == InitCache /\ [][NextCache]_vars

\* ------------------------------------------------------------------------
\* Specification: one fit call on a larger dataset, k = 1, batches of two
\* ------------------------------------------------------------------------
\* points in ascending order of their coordinate
LoopDatasets ==
  {d \in [0..(LoopPoints - 1) -> 0..LoopCoord] :
     /\ d[0] = 0
     /\ \A i \in 1..(LoopPoints - 1) : d[i - 1] <= d[i]}

InitLoop ==
  /\ InitEngine
  /\ nMedoids = 1
  /\ batchSize = 2
  /\ maxIter = 1
  /\ usePerm = FALSE
  /\ useCacheP = FALSE

NextLoop ==
  \/ \E d \in LoopDatasets : Fit(d)
  \/ BuildStep
  \/ BuildPromote
  \/ BuildExit
  \/ BuildSample
  \/ BuildSelect
  \/ SwapEntry
  \/ SwapStep
  \/ SwapPromote
  \/ SwapExit
  \/ SwapSample
  \/ SwapSelect
  \/ FitReturn

SpecLoop == InitLoop /\ [][NextLoop]_vars

\* A fit call with reference batches drawn by arma::randperm, which can be
\* any batch_size distinct points in every round.
InitRandom ==
  /\ InitEngine
  /\ nMedoids \in 1..(NPoints - 1)
  /\ batchSize \in 1..NPoints
  /\ maxIter \in 0..1
  /\ usePerm = FALSE
  /\ useCacheP = FALSE

\* fit is one thread that runs until it returns: a step that can be taken is
\* taken
FairSpec == InitRandom /\ [][Next]_vars /\ WF_vars(Next)

\* ------------------------------------------------------------------------
\* Specification: the sigma passes run by worker threads
\* ------------------------------------------------------------------------
\* number of worker threads of a parallel loop
Threads == 2

Idle == [arm |-> Unset, j |-> 0, sub |-> FALSE]

\* state of the pass when the parallel loop is entered
SigmaFork(armSet, refs) ==
  /\ referencePoints' = refs
  /\ sample' = Fill(1..Len(refs), 0)
  /\ updated_sigma' = Fill(armSet, Unset)
  /\ todo' = armSet
  /\ worker' = Fill(1..Threads, Idle)

\* state of the pass outside a parallel loop
SigmaDone ==
  /\ referencePoints' = <<>>
  /\ sample' = <<>>
  /\ updated_sigma' = <<>>
  /\ todo' = {}
  /\ worker' = <<>>

\* head of one BUILD step up to the parallel loop of buildSigma
BuildSigmaFork ==
  /\ pc = "build_step"
  /\ k < nMedoids
  /\ \E dr \in Draws(0, batchSize) :
       /\ permutationIdx' = dr.idx
       /\ window' = dr.window
       /\ IF dr.ok
          THEN /\ candidates' = Fill(BuildArms, 1)
               /\ numSamples' = Fill(BuildArms, 0)
               /\ exactMask' = Fill(BuildArms, 0)
               /\ estimates' = Fill(BuildArms, 0)
               /\ SigmaFork(BuildArms, dr.refs)
               /\ pc' = "build_sigma"
               /\ UNCHANGED <<data, options, permutation, cache, medoid_indices,
                              assignments, k, useAbsolute, dists, sigma, lcbs,
                              ucbs, iter, swap_performed, outputs, ref, radius>>
          ELSE Fail

\* head of one SWAP outer iteration up to the parallel loop of swapSigma
SwapSigmaFork ==
  /\ pc = "swap_head"
  /\ SwapContinues(swap_performed, iter, maxIter)
  /\ iter' = iter + 1
  /\ \E bsa \in {Vec(calcBestDistancesSwap(data, medoid_indices, assignments))} :
     \E dr \in Draws(0, batchSize) :
       /\ permutationIdx' = dr.idx
       /\ window' = dr.window
       /\ bestDistances' = [i \in Points |-> bsa[i].best]
       /\ secondBestDistances' = [i \in Points |-> bsa[i].second]
       /\ assignments' = [i \in Points |-> bsa[i].assign]
       /\ IF dr.ok
          THEN /\ SigmaFork(SwapArms, dr.refs)
               /\ pc' = "swap_sigma"
          ELSE /\ pc' = "failed"
               /\ UNCHANGED sigmaPass
  /\ UNCHANGED <<data, options, permutation, cache, medoid_indices, k,
                 useAbsolute, arms, swap_performed, outputs, ref, radius>>

\* a worker takes an arm of the loop
SigmaTake(t) ==
  /\ pc \in {"build_sigma", "swap_sigma"}
  /\ worker[t] = Idle
  /\ \E a \in todo :
       /\ todo' = todo \ {a}
       /\ worker' = [worker EXCEPT ![t] = [arm |-> a, j |-> 1, sub |-> FALSE]]
  /\ UNCHANGED <<pc, data, options, sampler, medoid_indices, assignments, k,
                 useAbsolute, dists, arms, iter, swap_performed, outputs, ref, radius,
                 referencePoints, sample, updated_sigma>>

\* what the first assignment to sample(j) stores for arm a
SigmaValue(a, r) ==
  LET cost == cachedLoss(data, IF pc = "build_sigma" THEN a ELSE a \div nMedoids, r)
      cap == IF pc = "build_sigma" \/ (a % nMedoids) # assignments[r]
             THEN bestDistances[r] ELSE secondBestDistances[r]
  IN IF pc = "build_sigma" /\ useAbsolute THEN cost
     ELSE IF cost < cap THEN cost ELSE cap

\* sample(j) = ...
SigmaSet(t) ==
  /\ pc \in {"build_sigma", "swap_sigma"}
  /\ worker[t] # Idle
  /\ ~worker[t].sub
  /\ worker[t].j <= Len(referencePoints)
  /\ sample' = [sample EXCEPT ![worker[t].j] =
                  SigmaValue(worker[t].arm, referencePoints[worker[t].j])]
  /\ worker' = IF pc = "build_sigma" /\ useAbsolute
               THEN [worker EXCEPT ![t].j = @ + 1]
               ELSE [worker EXCEPT ![t].sub = TRUE]
  /\ UNCHANGED <<pc, data, options, sampler, medoid_indices, assignments, k,
                 useAbsolute, dists, arms, iter, swap_performed, outputs, ref, radius,
                 referencePoints, updated_sigma, todo>>

\* sample(j) -= bestDistances(referencePoints(j))
SigmaSub(t) ==
  /\ pc \in {"build_sigma", "swap_sigma"}
  /\ worker[t] # Idle
  /\ worker[t].sub
  /\ sample' = [sample EXCEPT ![worker[t].j] =
                  @ - bestDistances[referencePoints[worker[t].j]]]
  /\ worker' = [worker EXCEPT ![t].j = @ + 1, ![t].sub = FALSE]
  /\ UNCHANGED <<pc, data, options, sampler, medoid_indices, assignments, k,
                 useAbsolute, dists, arms, iter, swap_performed, outputs, ref, radius,
                 referencePoints, updated_sigma, todo>>

\* updated_sigma(i) = arma::stddev(sample)
SigmaStore(t) ==
  /\ pc \in {"build_sigma", "swap_sigma"}
  /\ worker[t] # Idle
  /\ worker[t].j > Len(referencePoints)
  /\ updated_sigma' = [updated_sigma EXCEPT ![worker[t].arm] = stddev(sample)]
  /\ worker' = [worker EXCEPT ![t] = Idle]
  /\ UNCHANGED <<pc, data, options, sampler, medoid_indices, assignments, k,
                 useAbsolute, dists, arms, iter, swap_performed, outputs, ref, radius,
                 referencePoints, sample, todo>>

\* the pass is over when every arm was taken and every worker has finished
SigmaOver == todo = {} /\ \A t \in DOMAIN worker : worker[t] = Idle

\* buildSigma returns
BuildSigmaJoin ==
  /\ pc = "build_sigma"
  /\ SigmaOver
  /\ sigma' = updated_sigma
  /\ cache' = CacheStore(BuildArms, Range(referencePoints))
  /\ SigmaDone
  /\ pc' = "build_loop"
  /\ UNCHANGED <<data, options, permutation, permutationIdx, window,
                 medoid_indices, assignments, k, useAbsolute, dists, estimates,
                 lcbs, ucbs, numSamples, exactMask, candidates, iter,
                 swap_performed, outputs, ref, radius>>

\* swapSigma returns; reset of the arms
SwapSigmaJoin ==
  /\ pc = "swap_sigma"
  /\ SigmaOver
  /\ sigma' = updated_sigma
  /\ candidates' = Fill(SwapArms, 1)
  /\ exactMask' = Fill(SwapArms, 0)
  /\ estimates' = Fill(SwapArms, 0)
  /\ numSamples' = Fill(SwapArms, 0)
  /\ cache' = CacheStore(Points, Range(referencePoints))
  /\ SigmaDone
  /\ pc' = "swap_loop"
  /\ UNCHANGED <<data, options, permutation, permutationIdx, window,
                 medoid_indices, assignments, k, useAbsolute, dists, lcbs, ucbs,
                 iter, swap_performed, outputs, ref, radius>>

\* datasets with the points in ascending order of their coordinate
SortedDatasets ==
  {d \in Datasets : \A i \in 1..(NPoints - 1) : d[i - 1] <= d[i]}

InitSigma ==
  /\ InitEngine
  /\ nMedoids = 1
  /\ batchSize = 2
  /\ maxIter = 1
  /\ usePerm = TRUE
  /\ useCacheP = TRUE

NextSigma ==
  \/ \E d \in SortedDatasets : Fit(d)
  \/ BuildSigmaFork
  \/ \E t \in 1..Threads : SigmaTake(t)
  \/ \E t \in 1..Threads : SigmaSet(t)
  \/ \E t \in 1..Threads : SigmaSub(t)
  \/ \E t \in 1..Threads : SigmaStore(t)
  \/ BuildSigmaJoin
  \/ BuildPromote
  \/ BuildExit
  \/ BuildSample
  \/ BuildSelect
  \/ SwapEntry
  \/ SwapSigmaFork
  \/ SwapSigmaJoin
  \/ SwapPromote
  \/ SwapExit
  \/ SwapSample
  \/ SwapSelect
  \/ FitReturn

SpecSigma == InitSigma /\ [][NextSigma]_vars

\* ------------------------------------------------------------------------
\* Specification: two fit calls on one engine, same dataset, options and seed
\* ------------------------------------------------------------------------
\* A second fit call on the same engine with the same dataset and options.
\* The generator is seeded as for the first call, so arma::randperm returns
\* the permutation it returned then; ref keeps what the first call returned.
Refit ==
  /\ pc = "done"
  /\ ref = <<>>
  /\ ref' = [permutation |-> permutation,
             medoidIndicesBuild |-> medoidIndicesBuild,
             medoidIndicesFinal |-> medoidIndicesFinal,
             labels |-> labels]
  /\ FitBegin(data, useCacheP, permutation, permutationIdx, cache)
  /\ useCacheP => permutation' = permutation
  /\ UNCHANGED <<options, outputs, sigmaPass, radius>>

InitRepeat ==
  /\ InitEngine
  /\ nMedoids = 1
  /\ batchSize = 2
  /\ maxIter = 1
  /\ usePerm = TRUE
  /\ useCacheP = TRUE

NextRepeat == NextSigma \/ Refit

SpecRepeat == InitRepeat /\ [][NextRepeat]_vars

\* ------------------------------------------------------------------------
\* Quantities the properties are stated with
\* ------------------------------------------------------------------------
BuildLoop == {"build_loop", "build_sample", "build_select"}
SwapLoop == {"swap_loop", "swap_sample", "swap_select"}
InSwap == pc \in SwapLoop \cup {"swap_head", "done"}

RECURSIVE SumOver(_, _)
SumOver(f, S) ==
  IF S = {} THEN 0
  ELSE LET x == CHOOSE y \in S : TRUE IN f[x] + SumOver(f, S \ {x})

SetMin(S) == CHOOSE x \in S : \A y \in S : x <= y

\* distance of point i to its nearest medoid in M
NearestDistance(d, M, i) == SetMin({L1(d, M[m], i) : m \in DOMAIN M})

\* total loss of the medoid set M
TotalLoss(d, M) == SumOver([i \in DOMAIN d |-> NearestDistance(d, M, i)], DOMAIN d)

PairwiseDistinct(M) == \A x, y \in DOMAIN M : M[x] = M[y] => x = y

IsMedoidSet(M) ==
  /\ DOMAIN M = 0..(nMedoids - 1)
  /\ \A m \in DOMAIN M : M[m] \in Points
  /\ PairwiseDistinct(M)

\* the arm the loop selects when it is left
SelectedArm == index_min(lcbs)

\* mean of the reward of arm a over all n reference points
ExactMean(a) ==
  IF pc \in BuildLoop
  THEN (Scale * SumOver([j \in Points |->
                           IF useAbsolute THEN L1(data, a, j)
                           ELSE (IF L1(data, a, j) < bestDistances[j]
                                 THEN L1(data, a, j) ELSE bestDistances[j])
                                - bestDistances[j]], Points)) \div N
  ELSE (Scale * SumOver([j \in Points |->
                           LET cost == L1(data, a \div nMedoids, j)
                               cap == IF a % nMedoids = assignments[j]
                                      THEN secondBestDistances[j]
                                      ELSE bestDistances[j]
                           IN (IF cost < cap THEN cost ELSE cap)
                              - bestDistances[j]], Points)) \div N

\* a step leaves every exact arm as it is
ExactArmsUntouched ==
  \A a \in DOMAIN exactMask :
    exactMask[a] = 1 =>
      /\ exactMask'[a] = 1
      /\ candidates'[a] = 0
      /\ numSamples'[a] = numSamples[a]
      /\ estimates'[a] = estimates[a]
      /\ ucbs'[a] = ucbs[a]
      /\ lcbs'[a] = lcbs[a]

\* ------------------------------------------------------------------------
\* Specification: the configuration and the entry of fit (KMedoids)
\* ------------------------------------------------------------------------
\* algorithm names and loss names a caller can pass
AlgorithmNames == {"BanditPAM", "naive", "unknown"}
LossNames == {"manhattan", "L1", "L2", "unknown"}

\* loss function setLossFn selects; on a line manhattan, L1 and L2 are one
\* function
setLossFn(loss) ==
  IF loss \in {"manhattan", "L1", "L2"} THEN "L1" ELSE "throw"

\* KMedoids::setAlgorithm stores the name
setAlgorithm(new_alg) ==
  /\ pc = "idle"
  /\ algorithm' = new_alg
  /\ UNCHANGED <<pc, data, nMedoids, batchSize, maxIter, usePerm, useCacheP,
                 fitFn, sampler, medoid_indices, assignments, k, useAbsolute,
                 dists, arms, iter, swap_performed, outputs, ref, radius, sigmaPass>>

\* total loss when candidate i joins the medoids at the positions pos
NaiveTotal(d, M, pos, i) ==
  SumOver([j \in DOMAIN d |->
             SetMin({L1(d, i, j)} \cup {L1(d, M[m], j) : m \in pos})],
          DOMAIN d)

RECURSIVE build_naive(_, _, _)
build_naive(d, M, kk) ==
  IF kk >= Cardinality(DOMAIN M) THEN M
  ELSE The({build_naive(d, [M EXCEPT ![kk] = best], kk + 1) :
              best \in {index_min([i \in DOMAIN d |->
                                     NaiveTotal(d, M, 0..(kk - 1), i)])}})

\* the candidate and the position of the first least total, positions outer
swap_naive(d, M) ==
  LET n == Cardinality(DOMAIN d)
      K == Cardinality(DOMAIN M)
  IN IF n = 0 THEN [M EXCEPT ![0] = 0]
     ELSE The({[M EXCEPT ![a \div n] = a % n] :
                 a \in {index_min([x \in 0..(K * n - 1) |->
                                     NaiveTotal(d, M, (0..(K - 1)) \ {x \div n},
                                                x % n)])}})

\* the swap loop of fit_naive after i iterations
RECURSIVE SwapNaiveLoop(_, _, _, _)
SwapNaiveLoop(d, M, i, limit) ==
  IF i >= limit THEN M
  ELSE The({IF M2 = M THEN M ELSE SwapNaiveLoop(d, M2, i + 1, limit) :
              M2 \in {swap_naive(d, M)}})

\* KMedoids::fit: the loss is set, then the fit function of the engine runs
fit(d, loss) ==
  /\ pc = "idle"
  /\ \/ /\ setLossFn(loss) = "throw"
        /\ pc' = "raised"
        /\ UNCHANGED <<data, sampler, medoid_indices, assignments, k,
                       useAbsolute, dists, arms, iter, swap_performed,
                       outputs>>
     \/ /\ setLossFn(loss) # "throw"
        /\ fitFn = "fit_naive"
        /\ data' = d
        /\ \E built \in {build_naive(d, Fill(0..(nMedoids - 1), 0), 0)} :
             /\ medoidIndicesBuild' = built
             /\ medoid_indices' = SwapNaiveLoop(d, built, 0, maxIter)
        /\ medoidIndicesFinal' = medoid_indices'
        /\ steps' = 0
        /\ pc' = "done"
        /\ UNCHANGED <<sampler, assignments, k, useAbsolute, dists, arms,
                       iter, swap_performed, labels>>
     \/ /\ setLossFn(loss) # "throw"
        /\ fitFn = "fit_bpam"
        /\ FitBegin(d, useCacheP, permutation, permutationIdx, cache)
        /\ UNCHANGED outputs
  /\ UNCHANGED <<options, ref, radius, sigmaPass>>

\* datasets of fewer than NPoints points, the empty one included
EntryDatasets ==
  UNION {[0..(n - 1) -> 0..MaxCoord] : n \in 0..(NPoints - 1)}

\* an engine constructed with an algorithm name checkAlgorithm accepts
InitEntry ==
  /\ InitState
  /\ algorithm \in AlgorithmNames
  /\ checkAlgorithm(algorithm) # "throw"
  /\ fitFn = checkAlgorithm(algorithm)
  /\ nMedoids \in 1..NPoints
  /\ batchSize \in 1..(NPoints - 1)
  /\ maxIter \in 0..1
  /\ usePerm = FALSE
  /\ useCacheP = FALSE

NextEntry ==
  \/ \E name \in AlgorithmNames : setAlgorithm(name)
  \/ \E d \in EntryDatasets, loss \in LossNames : fit(d, loss)
  \/ BuildStep
  \/ BuildPromote
  \/ BuildExit
  \/ BuildSample
  \/ BuildSelect
  \/ SwapEntry
  \/ SwapStep
  \/ SwapPromote
  \/ SwapExit
  \/ SwapSample
  \/ SwapSelect
  \/ FitReturn

SpecEntry == InitEntry /\ [][NextEntry]_vars

\* ------------------------------------------------------------------------
\* C1: after fit returns medoids_final holds exactly k pairwise-distinct
\* point indices, and so does the medoid set BUILD produces and M after every
\* SWAP outer iteration that changed M.
\* ------------------------------------------------------------------------
C1_DistinctMedoids ==
  /\ pc = "done" => IsMedoidSet(medoidIndicesFinal)
  /\ (pc = "swap_head" /\ iter = 0) => IsMedoidSet(medoidIndicesBuild)
  /\ (pc = "swap_head" /\ iter > 0 /\ swap_performed) => IsMedoidSet(medoid_indices)

\* ------------------------------------------------------------------------
\* C2: after fit returns, for every option setting and every point i,
\* labels[i] is a medoid position and the medoid at that position is a
\* nearest medoid of i.
\* ------------------------------------------------------------------------
C2_LabelsNearest ==
  pc = "done" =>
    \A i \in Points :
      /\ labels[i] \in 0..(nMedoids - 1)
      /\ L1(data, medoidIndicesFinal[labels[i]], i)
           = NearestDistance(data, medoidIndicesFinal, i)

\* ------------------------------------------------------------------------
\* C3: steps counts the SWAP outer iterations that replaced an entry of M by
\* a different index; an iteration whose swap is a no-op leaves steps alone.
\* ------------------------------------------------------------------------
C3_StepsCountSwaps ==
  [][pc = "swap_select" =>
       steps' = steps + (IF medoid_indices' # medoid_indices THEN 1 ELSE 0)]_vars

\* C3 as amended: steps counts the SWAP outer iterations that were run, the
\* last one with a no-op swap included.
C3_StepsCountIterations ==
  /\ pc \in {"swap_head", "done"} => steps = iter
  /\ pc \in SwapLoop => steps = iter - 1

C3_Witness == pc = "done" /\ ~swap_performed /\ iter = 2 /\ steps = 2

C5_SwapLoopStops ==
  /\ [](InSwap => iter <= maxIter)
  /\ [][pc = "swap_select" =>
          (swap_performed' <=> medoid_indices' # medoid_indices)]_vars
  /\ [][(pc = "swap_head" /\ pc' = "done") =>
          (iter = maxIter \/ ~swap_performed)]_vars
  /\ [][(pc = "swap_head" /\ iter > 0 /\ ~swap_performed) => pc' = "done"]_vars
  /\ [][(pc = "swap_head" /\ swap_performed /\ iter < maxIter) =>
          (pc' \in {"swap_loop", "failed"} /\ iter' = iter + 1)]_vars

C5_Witness == pc = "swap_loop" /\ iter = 2 /\ maxIter = 2

\* ------------------------------------------------------------------------
\* C6: in the confidence-bound loop every arm has T[a] <= n, and an arm with
\* T[a] = n is exact with its mean the exact evaluation over all n points.
\* ------------------------------------------------------------------------
C6_SamplesAtMostN ==
  pc \in BuildLoop \cup SwapLoop =>
    \A a \in DOMAIN numSamples :
      /\ numSamples[a] <= N
      /\ numSamples[a] = N =>
           (exactMask[a] = 1 /\ estimates[a] = ExactMean(a))

\* C6 as amended: an arm that is not exact has T[a] < n; exact promotion adds
\* n to the count, so an exact arm has n <= T[a] < 2n, and its mean, UCB and
\* LCB are the exact evaluation over all n points.
C6_SamplesBelowTwoN ==
  pc \in BuildLoop \cup SwapLoop =>
    \A a \in DOMAIN numSamples :
      /\ exactMask[a] = 0 => numSamples[a] < N
      /\ exactMask[a] = 1 =>
           /\ N <= numSamples[a]
           /\ numSamples[a] < 2 * N
           /\ estimates[a] = ExactMean(a)
           /\ ucbs[a] = ExactMean(a)
           /\ lcbs[a] = ExactMean(a)

C6_Witness ==
  /\ pc \in BuildLoop \cup SwapLoop
  /\ \E a \in DOMAIN numSamples : exactMask[a] = 1 /\ numSamples[a] > N

\* ------------------------------------------------------------------------
\* C7: within one invocation of the confidence-bound loop, an arm that is
\* exact stays exact, is never a candidate and so is in no later batched
\* round, and its sample count, mean, UCB and LCB are not modified.
\* ------------------------------------------------------------------------
C7_ExactIsFinal ==
  /\ [](pc \in BuildLoop \cup SwapLoop =>
         \A a \in DOMAIN exactMask : exactMask[a] = 1 => candidates[a] = 0)
  /\ [][(pc \in {"build_loop", "build_sample", "swap_loop", "swap_sample"}) =>
          ExactArmsUntouched]_vars

\* a batched round is about to run while some arm is exact
C7_Witness ==
  /\ pc \in {"build_sample", "swap_sample"}
  /\ \E a \in DOMAIN exactMask : exactMask[a] = 1
  /\ \E a \in DOMAIN exactMask : candidates[a] = 1

\* ------------------------------------------------------------------------
\* C8: for every dataset, every batch size 1 <= B <= n and every sigma
\* vector, each invocation of the confidence-bound loop reaches an empty
\* candidate set after finitely many rounds, and fit eventually returns
\* (runs stopped by an out-of-range access aside).
\* ------------------------------------------------------------------------
C8_LoopTerminates ==
  /\ (pc \in {"build_loop", "build_sample"}) ~>
       ((pc = "build_select" /\ NumCandidates = 0) \/ pc = "failed")
  /\ (pc \in {"swap_loop", "swap_sample"}) ~>
       ((pc = "swap_select" /\ NumCandidates = 0) \/ pc = "failed")
  /\ (pc = "build_step") ~> (pc \in {"done", "failed"})

C8_Witness ==
  /\ pc = "done"
  /\ iter = 1
  /\ \E a \in DOMAIN numSamples : numSamples[a] > N /\ sigma[a] > 0

\* ------------------------------------------------------------------------
\* C9: every batch of the permutation walk is `size` pairwise-distinct
\* indices in 0..n-1, and its window permutation[p .. p+size-1] never
\* reaches past the end of the permutation.
\* ------------------------------------------------------------------------
C9_WindowInsidePermutation ==
  (usePerm /\ window # <<>>) =>
    /\ window[2] < Len(permutation)
    /\ \A x, y \in window[1]..window[2] :
         /\ permutation[x + 1] \in Points
         /\ permutation[x + 1] = permutation[y + 1] => x = y

\* ------------------------------------------------------------------------
\* C10: with use_perm on, for a fixed dataset, k, batch size and max_iter,
\* the fit call with use_cache off returns the same medoids_build,
\* medoids_final and labels as the fit call with use_cache on.
\* ------------------------------------------------------------------------
C10_CacheEquivalent ==
  (ref # <<>> /\ pc \in {"done", "failed"}) =>
    /\ pc = "done"
    /\ medoidIndicesBuild = ref.medoidIndicesBuild
    /\ medoidIndicesFinal = ref.medoidIndicesFinal
    /\ labels = ref.labels

\* ------------------------------------------------------------------------
\* C11: with use_perm on, when a fit call makes its first reference draw the
\* permutation is a bijection of 0..n-1 for the dataset of the call, whatever
\* use_cache is.
\* ------------------------------------------------------------------------
C11_PermutationIsBijection ==
  (usePerm /\ pc = "build_step" /\ k = 0) =>
    /\ Len(permutation) = N
    /\ Range(permutation) = Points

\* ------------------------------------------------------------------------
\* C12: a second fit call on the same engine, with the same dataset, the same
\* options, use_perm on and the same seed, returns the medoids_build and the
\* medoids_final the first call returned.
\* ------------------------------------------------------------------------
C12_RefitSameMedoids ==
  (ref # <<>> /\ pc = "done") =>
    /\ medoidIndicesBuild = ref.medoidIndicesBuild
    /\ medoidIndicesFinal = ref.medoidIndicesFinal

\* ------------------------------------------------------------------------
\* C13: an unknown algorithm name is refused when it is set, so no fit call
\* begins while the algorithm name the engine stores is unrecognized.
\* ------------------------------------------------------------------------
C13_NoFitWithUnknownAlgorithm ==
  pc \notin {"idle", "raised"} => checkAlgorithm(algorithm) # "throw"

\* ------------------------------------------------------------------------
\* C14: a fit call with k > n or with an empty dataset raises at fit entry:
\* it never gets to BUILD, and medoids_build, medoids_final, labels and steps
\* stay as they were.
\* ------------------------------------------------------------------------
C14_DimensionsCheckedAtEntry ==
  /\ [](pc \notin {"idle", "raised"} => (N > 0 /\ nMedoids <= N))
  /\ [][(pc = "idle" /\ (data' = <<>> \/ nMedoids > Cardinality(DOMAIN data')))
          => UNCHANGED outputs]_vars

\* ------------------------------------------------------------------------
\* C15: for every interleaving of the worker threads, a sigma pass returns
\* the vector computed sequentially from the same reference batch: sigma[a]
\* is the standard deviation of the batch samples of arm a only.
\* ------------------------------------------------------------------------
C15_SigmaAsSequential ==
  /\ [][(pc = "build_sigma" /\ pc' = "build_loop") =>
          sigma' = buildSigma(data, bestDistances, useAbsolute,
                              referencePoints)]_vars
  /\ [][(pc = "swap_sigma" /\ pc' = "swap_loop") =>
          sigma' = swapSigma(data, bestDistances, secondBestDistances,
                             assignments, referencePoints)]_vars

\* ------------------------------------------------------------------------
\* C16: for k = n on pairwise-distinct points, after fit every point is its
\* own medoid, medoids_final being a permutation of 0..n-1, and labels are
\* the identity.
\* ------------------------------------------------------------------------
C16_EveryPointItsOwnMedoid ==
  (pc = "done" /\ nMedoids = N
     /\ \A x, y \in Points : data[x] = data[y] => x = y) =>
    /\ Range(medoidIndicesFinal) = Points
    /\ \A i \in Points : labels[i] = i

\* ------------------------------------------------------------------------
\* C17: after every recomputation of b, s and A from M, for every point i:
\* b[i] is the smallest and s[i] the second-smallest, counted with
\* multiplicity, of the distances of i to the k medoid positions (infinity
\* when k = 1), so b[i] <= s[i], and A[i] is the lowest position at distance
\* b[i].
\* ------------------------------------------------------------------------
\* the least distance that at least two medoid positions are within
SecondNearest(d, M, i) ==
  IF Cardinality(DOMAIN M) < 2 THEN Inf
  ELSE SetMin({L1(d, M[m], i) : m \in
                 {x \in DOMAIN M :
                    \E y \in DOMAIN M : y # x /\ L1(d, M[y], i) <= L1(d, M[x], i)}})

LoopEntry ==
  [est |-> Fill(SwapArms, 0), T |-> Fill(SwapArms, 0), ex |-> Fill(SwapArms, 0),
   cand |-> Fill(SwapArms, 1), uc |-> ucbs, lc |-> lcbs,
   idx |-> The(Draws(0, batchSize)).idx]

\* upd applied to the record of the arms
Upd(v, targets, result) ==
  Vec([a \in SwapArms |-> IF a \in targets THEN result[a] ELSE v[a]])

\* the exact-promotion branch on the arms st; with keep the candidate flags
\* stay as they are
LoopPromote(st, keep) ==
  LET targets == {a \in SwapArms :
                    ((st.T[a] + batchSize) >= N) # (st.ex[a] = 1)}
  IN IF targets = {} THEN st
     ELSE The({The({[est |-> Upd(st.est, targets, result), uc |-> uc, lc |-> lc,
                     T |-> Vec([a \in SwapArms |->
                                  IF a \in targets THEN st.T[a] + N ELSE st.T[a]]),
                     ex |-> ex, idx |-> dr.idx,
                     cand |-> IF keep THEN st.cand ELSE Eliminate(lc, uc, ex)] :
                    uc \in {Upd(st.uc, targets, result)},
                    lc \in {Upd(st.lc, targets, result)},
                    ex \in {Vec([a \in SwapArms |->
                                   IF a \in targets THEN 1 ELSE st.ex[a]])}}) :
               dr \in Draws(st.idx, N),
               result \in {Vec(swapTarget(data, nMedoids, targets, bestDistances,
                                          secondBestDistances, assignments,
                                          The(Draws(st.idx, N)).refs))}})

\* the batched-sampling branch on the arms st
LoopSample(st) ==
  LET targets == {a \in SwapArms : st.cand[a] = 1}
      p == N * nMedoids * swapConfidence
  IN The({The({[est |-> est, uc |-> uc, lc |-> lc, T |-> ns, ex |-> st.ex,
                idx |-> dr.idx, cand |-> Eliminate(lc, uc, st.ex)] :
               uc \in {Vec([a \in SwapArms |->
                              IF a \in targets
                              THEN est[a] + confBoundDelta(sigma[a], p, ns[a])
                              ELSE st.uc[a]])},
               lc \in {Vec([a \in SwapArms |->
                              IF a \in targets
                              THEN est[a] - confBoundDelta(sigma[a], p, ns[a])
                              ELSE st.lc[a]])}}) :
          dr \in Draws(st.idx, batchSize),
          est \in {Vec([a \in SwapArms |->
                          IF a \in targets
                          THEN ((st.T[a] * st.est[a])
                                + (swapTarget(data, nMedoids, {a}, bestDistances,
                                              secondBestDistances, assignments,
                                              The(Draws(st.idx, batchSize)).refs)[a]
                                   * batchSize))
                                 \div (batchSize + st.T[a])
                          ELSE st.est[a]])},
          ns \in {Vec([a \in SwapArms |->
                         IF a \in targets THEN st.T[a] + batchSize ELSE st.T[a]])}})

\* the SWAP loop from the arms st to its exit, on the permutation walk
RECURSIVE SwapLoopFrom(_, _)
SwapLoopFrom(st, keep) ==
  IF \A a \in SwapArms : st.cand[a] = 0 THEN st
  ELSE The({IF \A a \in SwapArms : promoted.cand[a] = 0 THEN promoted
            ELSE The({SwapLoopFrom(sampled, keep) :
                        sampled \in {LoopSample(promoted)}}) :
              promoted \in {LoopPromote(st, keep)}})

\* the loop as the code has it, from the arms of the entry, ends with the
\* arms of the model
LoopAsModel ==
  (pc = "swap_select" /\ usePerm /\ Len(permutation) = N) =>
    LET st == SwapLoopFrom(LoopEntry, FALSE)
    IN /\ st.est = estimates /\ st.uc = ucbs /\ st.lc = lcbs
       /\ st.T = numSamples /\ st.ex = exactMask /\ st.idx = permutationIdx

\* C18: the loop that keeps the candidate flags in the exact-promotion branch
\* ends with the same mean, UCB and LCB of every arm and the same selected arm
C18_PromotionUpdateRedundant ==
  (pc = "swap_select" /\ usePerm /\ Len(permutation) = N) =>
    LET st == SwapLoopFrom(LoopEntry, TRUE)
    IN /\ st.est = estimates /\ st.uc = ucbs /\ st.lc = lcbs
       /\ index_min(st.lc) = index_min(lcbs)

\* C18 as the code has it: the update of the exact-promotion branch is what
\* takes the promoted arms out of the candidates before the batched branch
\* of the same round, so the loop without it agrees with the loop of the
\* code where the loop ends with no arm promoted, and not in general.
C18_PromotionUpdateNeeded ==
  /\ [](((pc = "swap_select" /\ usePerm /\ Len(permutation) = N)
          /\ \A a \in SwapArms : exactMask[a] = 0) =>
         LET st == SwapLoopFrom(LoopEntry, TRUE)
         IN /\ st.est = estimates /\ st.uc = ucbs /\ st.lc = lcbs
            /\ index_min(st.lc) = index_min(lcbs))
  /\ [][(pc = "swap_loop" /\ pc' \in {"swap_sample", "swap_select"}) =>
          \A a \in SwapArms : exactMask'[a] = 1 => candidates'[a] = 0]_vars

C18_Witness ==
  /\ pc = "swap_select" /\ usePerm /\ Len(permutation) = N
  /\ \A a \in SwapArms : exactMask[a] = 0
  /\ \E a \in SwapArms : numSamples[a] > 0

\* ------------------------------------------------------------------------
\* The confidence parameter p of build and swap.  size_t is four limbs of
\* sixteen bits, lowest first; int holds the low two limbs in two's
\* complement.
\* ------------------------------------------------------------------------
Limb == 65536
SizeLimbs == 4

\* the limbs of x * m, m below 2^15, cut to the limbs of x
RECURSIVE LimbsTimes(_, _, _, _)
LimbsTimes(x, m, i, carry) ==
  IF i > Len(x) THEN <<>>
  ELSE The({<<t % Limb>> \o LimbsTimes(x, m, i + 1, t \div Limb) :
              t \in {x[i] * m + carry}})

\* a value below 2^31 in a variable of `limbs` limbs
AsLimbs(x, limbs) ==
  [i \in 1..limbs |-> IF i = 1 THEN x % Limb
                      ELSE IF i = 2 THEN x \div Limb ELSE 0]

\* size_t to int: the low 32 bits, bit 31 the sign
SizeToInt(x) ==
  IF x[2] >= Limb \div 2 THEN (x[2] - Limb) * Limb + x[1]
  ELSE x[2] * Limb + x[1]

\* KMedoids::build: int p = (buildConfidence * N)
KMedoidsBuildP ==
  /\ pc = "ucb_fit"
  /\ pValue' = SizeToInt(LimbsTimes(AsLimbs(n_cols, SizeLimbs), buildConfidence, 1, 0))
  /\ pc' = "ucb_build"
  /\ UNCHANGED <<data, options, sampler, medoid_indices, assignments, k,
                 useAbsolute, dists, arms, iter, swap_performed, outputs, ref,
                 sigmaPass, n_cols>>

\* KMedoids::swap: int p = (N * n_medoids * swapConfidence)
KMedoidsSwapP ==
  /\ pc = "ucb_build"
  /\ pValue' = SizeToInt(LimbsTimes(LimbsTimes(AsLimbs(n_cols, SizeLimbs),
                                          nMedoids, 1, 0),
                               swapConfidence, 1, 0))
  /\ pc' = "ucb_swap"
  /\ UNCHANGED <<data, options, sampler, medoid_indices, assignments, k,
                 useAbsolute, dists, arms, iter, swap_performed, outputs, ref,
                 sigmaPass, n_cols>>

\* BanditPAM::build: size_t p = (buildConfidence * N)
BanditBuildP ==
  /\ pc = "ucb_fit"
  /\ pValue' = LimbsTimes(AsLimbs(n_cols, SizeLimbs), buildConfidence, 1, 0)
  /\ pc' = "bpam_build"
  /\ UNCHANGED <<data, options, sampler, medoid_indices, assignments, k,
                 useAbsolute, dists, arms, iter, swap_performed, outputs, ref,
                 sigmaPass, n_cols>>

\* BanditPAM::swap: size_t p = (N * nMedoids * swapConfidence)
BanditSwapP ==
  /\ pc = "bpam_build"
  /\ pValue' = LimbsTimes(LimbsTimes(AsLimbs(n_cols, SizeLimbs), nMedoids, 1, 0),
                          swapConfidence, 1, 0)
  /\ pc' = "bpam_swap"
  /\ UNCHANGED <<data, options, sampler, medoid_indices, assignments, k,
                 useAbsolute, dists, arms, iter, swap_performed, outputs, ref,
                 sigmaPass, n_cols>>

\* numbers of points and of medoids on both sides of 2^31 / 1000 and of
\* 2^32 / 1000
ColumnCounts ==
  {1, 3, 1000, 65536, 100000, 2147483, 2147484, 4294967, 4294968, 10000000}
MedoidCounts == {1, 2, 3, 5, 22, 100}

InitRadius ==
  /\ pc = "ucb_fit"
  /\ data = <<>>
  /\ permutation = <<>>
  /\ permutationIdx = 0
  /\ cache = <<>>
  /\ window = <<>>
  /\ medoid_indices = <<>>
  /\ assignments = <<>>
  /\ k = 0
  /\ useAbsolute = TRUE
  /\ bestDistances = <<>>
  /\ secondBestDistances = <<>>
  /\ sigma = <<>>
  /\ estimates = <<>>
  /\ lcbs = <<>>
  /\ ucbs = <<>>
  /\ numSamples = <<>>
  /\ exactMask = <<>>
  /\ candidates = <<>>
  /\ iter = 0
  /\ swap_performed = FALSE
  /\ medoidIndicesBuild = <<>>
  /\ medoidIndicesFinal = <<>>
  /\ labels = <<>>
  /\ steps = 0
  /\ ref = <<>>
  /\ referencePoints = <<>>
  /\ sample = <<>>
  /\ updated_sigma = <<>>
  /\ todo = {}
  /\ worker = <<>>
  /\ algorithm = "BanditPAM"
  /\ fitFn = checkAlgorithm(algorithm)
  /\ batchSize = 1
  /\ maxIter = 1
  /\ usePerm = FALSE
  /\ useCacheP = FALSE
  /\ nMedoids \in MedoidCounts
  /\ n_cols \in {n \in ColumnCounts : n >= nMedoids}
  /\ pValue = 0

NextRadius ==
  \/ KMedoidsBuildP
  \/ KMedoidsSwapP
  \/ BanditBuildP
  \/ BanditSwapP

SpecRadius == InitRadius /\ [][NextRadius]_vars

\* the product x * m in limbs enough to hold it
Product(x, m) == LimbsTimes(x, m, 1, 0)
ExactBuildP == Product(AsLimbs(n_cols, 2 * SizeLimbs), buildConfidence)
ExactSwapP ==
  Product(Product(AsLimbs(n_cols, 2 * SizeLimbs), nMedoids), swapConfidence)

\* the int v holds the number whose limbs are x
IntHolds(v, x) ==
  /\ v > 0
  /\ x = AsLimbs(v, Len(x))

\* the size_t v holds the number whose limbs are x
SizeHolds(v, x) ==
  /\ \E i \in 1..Len(v) : v[i] > 0
  /\ x = [i \in 1..Len(x) |-> IF i <= Len(v) THEN v[i] ELSE 0]

\* C19: the variable p holds buildConfidence * n in BUILD and
\* swapConfidence * k * n in SWAP, a positive integer: it never wraps around
\* and is never zero or negative
C19_ConfidenceParameterHeld ==
  /\ pc = "ucb_build" => IntHolds(pValue, ExactBuildP)
  /\ pc = "ucb_swap" => IntHolds(pValue, ExactSwapP)
  /\ pc = "bpam_build" => SizeHolds(pValue, ExactBuildP)
  /\ pc = "bpam_swap" => SizeHolds(pValue, ExactSwapP)

\* ------------------------------------------------------------------------
\* FastPAM1
\* ------------------------------------------------------------------------
\* total of candidate i in one step of buildFastPAM1
FastBuildTotal(d, best, i) ==
  SeqSum([j \in 1..Cardinality(DOMAIN d) |->
            IF best[j - 1] < L1(d, i, j - 1) THEN best[j - 1]
            ELSE L1(d, i, j - 1)])

\* the first candidate at or after i whose total is below minDistance
RECURSIVE FastBuildBest(_, _, _, _)
FastBuildBest(d, best, i, acc) ==
  IF i >= Cardinality(DOMAIN d) THEN acc.best
  ELSE The({FastBuildBest(d, best, i + 1,
                          IF total < acc.minDistance
                          THEN [minDistance |-> total, best |-> i] ELSE acc) :
              total \in {FastBuildTotal(d, best, i)}})

RECURSIVE buildFastPAM1(_, _, _, _)
buildFastPAM1(d, M, kk, bestDist) ==
  IF kk >= Cardinality(DOMAIN M) THEN M
  ELSE The({buildFastPAM1(d, [M EXCEPT ![kk] = best], kk + 1,
                          Vec([l \in DOMAIN d |->
                                 IF L1(d, l, best) < bestDist[l]
                                 THEN L1(d, l, best) ELSE bestDist[l]])) :
              best \in {FastBuildBest(d, bestDist, 0,
                                      [minDistance |-> Inf * Cardinality(DOMAIN d) + 1,
                                       best |-> 0])}})

\* variant: point j adds its change to the position of its medoid only
DeltaTdOwnOnly(delta, dij, bj, sj, aj) ==
  [m \in DOMAIN delta |->
     IF m = aj THEN delta[m] + ((IF dij < sj THEN dij ELSE sj) - bj)
     ELSE delta[m]]

\* what point j at distance dij of the candidate adds to delta_td
DeltaTdAdd(delta, dij, bj, sj, aj) ==
  [m \in DOMAIN delta |->
     IF m = aj THEN delta[m] + ((IF dij < sj THEN dij ELSE sj) - bj)
     ELSE IF dij < bj THEN delta[m] + (dij - bj) ELSE delta[m]]

RECURSIVE DeltaTdFrom(_, _, _, _, _, _, _)
DeltaTdFrom(d, best, second, assign, i, j, delta) ==
  IF j >= Cardinality(DOMAIN d) THEN delta
  ELSE IF j = i THEN DeltaTdFrom(d, best, second, assign, i, j + 1, delta)
  ELSE The({DeltaTdFrom(d, best, second, assign, i, j + 1, next) :
              next \in {Vec(DeltaTdAdd(delta, L1(d, i, j), best[j], second[j],
                                       assign[j]))}})

\* delta_td of candidate i when the inner loop has ended
delta_td(d, K, best, second, assign, i) ==
  DeltaTdFrom(d, best, second, assign, i, 0, Fill(0..(K - 1), 0 - best[i]))

RECURSIVE FastSwapScan(_, _, _, _, _, _, _)
FastSwapScan(d, K, best, second, assign, i, acc) ==
  IF i >= Cardinality(DOMAIN d) THEN acc
  ELSE The({FastSwapScan(d, K, best, second, assign, i + 1,
                         IF MinOf(delta) < acc.bestChange
                         THEN [bestChange |-> MinOf(delta), best |-> i,
                               medoid_to_swap |-> index_min(delta)]
                         ELSE acc) :
              delta \in {delta_td(d, K, best, second, assign, i)}})

\* one call of swapFastPAM1: the medoids and the assignments it leaves
swapFastPAM1(d, M, assign) ==
  The({The({[medoid_indices |-> IF found.bestChange < 0
                                THEN [M EXCEPT ![found.medoid_to_swap] = found.best]
                                ELSE M,
             assignments |-> [i \in DOMAIN d |-> bsa[i].assign]] :
            found \in {FastSwapScan(d, Cardinality(DOMAIN M),
                                    [i \in DOMAIN d |-> bsa[i].best],
                                    [i \in DOMAIN d |-> bsa[i].second],
                                    [i \in DOMAIN d |-> bsa[i].assign], 0,
                                    [bestChange |-> 0, best |-> 0,
                                     medoid_to_swap |-> 0])}}) :
       bsa \in {Vec(calcBestDistancesSwap(d, M, assign))}})

\* fitFastPAM1 up to the loop
fitFastPAM1(d) ==
  /\ pc = "idle"
  /\ data' = d
  /\ medoid_indices' = buildFastPAM1(d, Fill(0..(nMedoids - 1), 0), 0,
                                     Fill(DOMAIN d, Inf))
  /\ medoidIndicesBuild' = medoid_indices'
  /\ steps' = 0
  /\ assignments' \in Garbage(DOMAIN d)
  /\ iter' = 0
  /\ swap_performed' = TRUE
  /\ pc' = "fast_loop"
  /\ UNCHANGED <<options, sampler, k, useAbsolute, dists, arms,
                 medoidIndicesFinal, labels, ref, sigmaPass, radius>>

\* one round of the loop of fitFastPAM1; swap_performed is medoidChange
FastSwap ==
  /\ pc = "fast_loop"
  /\ iter < maxIter /\ swap_performed
  /\ \E res \in {swapFastPAM1(data, medoid_indices, assignments)} :
       /\ medoid_indices' = res.medoid_indices
       /\ assignments' = res.assignments
       /\ swap_performed' = (res.medoid_indices # medoid_indices)
  /\ iter' = iter + 1
  /\ UNCHANGED <<pc, data, options, sampler, k, useAbsolute, dists, arms,
                 outputs, ref, sigmaPass, radius>>

FastReturn ==
  /\ pc = "fast_loop"
  /\ ~(iter < maxIter /\ swap_performed)
  /\ medoidIndicesFinal' = medoid_indices
  /\ labels' = assignments
  /\ steps' = iter
  /\ pc' = "done"
  /\ UNCHANGED <<data, options, sampler, medoid_indices, assignments, k,
                 useAbsolute, dists, arms, iter, swap_performed,
                 medoidIndicesBuild, ref, sigmaPass, radius>>

FastDatasets ==
  {d \in [0..(LoopPoints - 1) -> 0..LoopCoord] : \E i \in DOMAIN d : d[i] = 0}

InitFast ==
  /\ InitState
  /\ algorithm = "FastPAM1"
  /\ fitFn = "fitFastPAM1"
  /\ nMedoids \in 1..NPoints
  /\ batchSize = 1
  /\ maxIter \in 0..MaxIterBound
  /\ usePerm = FALSE
  /\ useCacheP = FALSE

NextFast ==
  \/ \E d \in FastDatasets : fitFastPAM1(d)
  \/ FastSwap
  \/ FastReturn

SpecFast == InitFast /\ [][NextFast]_vars

\* the change of the total loss when candidate i takes position m
ExactChange(d, M, i, m) == TotalLoss(d, [M EXCEPT ![m] = i]) - TotalLoss(d, M)

\* delta_td as the call on the medoids M computes it
DeltaOf(d, M, assign, i) ==
  The({delta_td(d, Cardinality(DOMAIN M), [x \in DOMAIN d |-> bsa[x].best],
                [x \in DOMAIN d |-> bsa[x].second],
                [x \in DOMAIN d |-> bsa[x].assign], i) :
         bsa \in {Vec(calcBestDistancesSwap(d, M, assign))}})

\* C20: delta_td(i, m) of a call of swapFastPAM1 is the exact change of the
\* total loss when i replaces M[m]; the call changes M only when the least
\* of these values is below 0, then at the one position of that least
\* value, so that the total loss falls; otherwise it leaves M as it is.
C20_SwapFastPAM1Exact ==
  /\ [](pc = "fast_loop" =>
          \A i \in Points : \A m \in DOMAIN medoid_indices :
            DeltaOf(data, medoid_indices, assignments, i)[m]
              = ExactChange(data, medoid_indices, i, m))
  /\ [][(pc = "fast_loop" /\ pc' = "fast_loop") =>
          LET least == SetMin({ExactChange(data, medoid_indices, i, m) :
                                 i \in Points, m \in DOMAIN medoid_indices})
          IN IF least < 0
             THEN /\ \E i \in Points : \E m \in DOMAIN medoid_indices :
                       /\ ExactChange(data, medoid_indices, i, m) = least
                       /\ medoid_indices' = [medoid_indices EXCEPT ![m] = i]
                  /\ medoid_indices' # medoid_indices
                  /\ TotalLoss(data, medoid_indices')
                       = TotalLoss(data, medoid_indices) + least
                  /\ TotalLoss(data, medoid_indices') < TotalLoss(data, medoid_indices)
             ELSE medoid_indices' = medoid_indices]_vars

C20_Witness ==
  /\ pc = "fast_loop"
  /\ iter >= 1
  /\ swap_performed
  /\ nMedoids >= 2
  /\ TotalLoss(data, medoid_indices) < TotalLoss(data, medoidIndicesBuild)

\* C21: after fitFastPAM1 returns with max_iter >= 1, labels is the
\* nearest-medoid assignment of medoidIndicesFinal: every point is labelled
\* with a position whose medoid is at the least distance from it.
C21_FastLabelsNearest ==
  (pc = "done" /\ fitFn = "fitFastPAM1" /\ maxIter >= 1) =>
    \A i \in Points :
      /\ labels[i] \in DOMAIN medoidIndicesFinal
      /\ L1(data, medoidIndicesFinal[labels[i]], i)
           = NearestDistance(data, medoidIndicesFinal, i)

\* a draw of `size` points with the cursor at `from` returned the window of
\* the permutation walk and moved the cursor behind it
WalkDraw(size, from) ==
  LET p0 == IF from + size - 1 >= N THEN 0 ELSE from
  IN /\ pc' # "failed"
     /\ window' = <<p0, p0 + size - 1>>
     /\ window'[2] < Len(permutation')
     /\ permutationIdx' = p0 + size

\* the window of a batch that is not exact starts at a multiple of the batch
\* size and ends before the partial tail
BatchAligned ==
  batchSize < N =>
    /\ window'[1] % batchSize = 0
    /\ window'[2] < (N \div batchSize) * batchSize

\* C22: in permutation-walk mode the cursor is 0 at the start of every BUILD
\* step and SWAP iteration; each draw resets the cursor to 0 when
\* p + size - 1 >= n, returns permutation[p .. p+size-1] and advances the
\* cursor by size; for a batch size below n every batch that is not exact
\* starts at a multiple of the batch size and never holds a position of the
\* partial tail.
C22_PermutationWalk ==
  /\ [][(usePerm /\ pc' # pc /\ ((pc = "build_step" /\ k < nMedoids)
                                  \/ (pc = "swap_head"
                                      /\ SwapContinues(swap_performed, iter, maxIter)))) =>
          (WalkDraw(batchSize, 0) /\ BatchAligned)]_vars
  /\ [][(usePerm /\ pc' # pc /\ pc \in {"build_sample", "swap_sample"}) =>
          (WalkDraw(batchSize, permutationIdx) /\ BatchAligned)]_vars
  /\ [][(usePerm /\ pc' # pc /\ pc \in {"build_loop", "swap_loop"}
          /\ NumCandidates >= 1 /\ ComputeExactly # {}) =>
          WalkDraw(N, permutationIdx)]_vars

\* the arm that puts the medoid of position m at position m
NoOpArm(m) == medoid_indices[m] * nMedoids + m

\* C23: in every SWAP iteration the arm (m, M[m]) of every position m has
\* reward 0 at every reference point, so its sigma, estimate, UCB and LCB
\* are 0, and the least LCB when the loop ends is not above 0.
C23_NoOpArmIsZero ==
  /\ pc \in {"swap_loop", "swap_sample", "swap_select"} =>
       \A m \in DOMAIN medoid_indices :
         /\ \A j \in Points :
              SwapArmSample(data, NoOpArm(m) \div nMedoids, m, j, bestDistances,
                            secondBestDistances, assignments) = 0
         /\ sigma[NoOpArm(m)] = 0
         /\ estimates[NoOpArm(m)] = 0
         /\ numSamples[NoOpArm(m)] > 0 =>
              (ucbs[NoOpArm(m)] = 0 /\ lcbs[NoOpArm(m)] = 0)
  /\ pc = "swap_select" => MinOf(lcbs) <= 0

\* the medoids of the greedy exact BUILD on the dataset of the engine
GreedyBuild ==
  buildFastPAM1(data, Fill(0..(nMedoids - 1), 0), 0, Fill(DOMAIN data, Inf))

\* sum of the distances of point i to all points
TotalDistance(i) == SumOver([j \in Points |-> L1(data, i, j)], Points)

\* C24: with batch_size = n BUILD selects at each step the lowest-indexed
\* point that minimizes the exact sum over j of min(dist(i, j), b[j]): its
\* medoids are those of buildFastPAM1, and the first one is the
\* lowest-indexed point of least total distance.
C24_ExactBuildIsGreedy ==
  (batchSize = N /\ pc = "build_step") =>
    /\ \A m \in 0..(k - 1) : medoid_indices[m] = GreedyBuild[m]
    /\ k >= 1 =>
         /\ \A i \in Points : TotalDistance(medoid_indices[0]) <= TotalDistance(i)
         /\ \A i \in 0..(medoid_indices[0] - 1) :
              TotalDistance(medoid_indices[0]) < TotalDistance(i)

C24_Witness ==
  /\ batchSize = N
  /\ pc = "build_step"
  /\ k = nMedoids
  /\ nMedoids >= 2
  /\ medoid_indices[0] > 0
  /\ medoid_indices[1] # medoid_indices[0]

\* a step inside one run of a confidence-bound loop
InsideLoop ==
  \/ pc \in {"build_loop", "build_sample"} /\ pc' \in BuildLoop
  \/ pc \in {"swap_loop", "swap_sample"} /\ pc' \in SwapLoop

\* C25: within one run of the confidence-bound loop the candidates only
\* shrink: an arm whose candidate flag was cleared is never a candidate
\* again and is never sampled again.
C25_CandidatesOnlyShrink ==
  [][InsideLoop =>
       \A a \in DOMAIN candidates :
         candidates[a] = 0 =>
           /\ candidates'[a] = 0
           /\ (exactMask[a] = 0 /\ exactMask'[a] = 0) =>
                numSamples'[a] = numSamples[a]]_vars

\* C25 as the code has it: the candidate flags are recomputed for all arms
\* after every batched round, so an arm that is not exact is a candidate
\* exactly when its LCB is below the least UCB, and a cleared arm can be a
\* candidate again; an arm that is no candidate is not sampled in the round,
\* and an exact arm is never a candidate or sampled again.
C25_CandidatesFollowTest ==
  [][InsideLoop =>
       \A a \in DOMAIN candidates :
         /\ exactMask[a] = 1 =>
              (candidates'[a] = 0 /\ numSamples'[a] = numSamples[a])
         /\ pc \in {"build_sample", "swap_sample"} =>
              /\ candidates'[a] = 1 <=>
                   (lcbs'[a] < MinOf(ucbs') /\ exactMask'[a] = 0)
              /\ candidates[a] = 0 =>
                   (numSamples'[a] = numSamples[a] /\ lcbs'[a] = lcbs[a]
                    /\ ucbs'[a] = ucbs[a])]_vars

\* an arm that missed a round of sampling is a candidate again
C25_Witness ==
  /\ pc = "build_loop"
  /\ \E a, c \in DOMAIN candidates :
       /\ candidates[a] = 1 /\ candidates[c] = 1
       /\ exactMask[a] = 0 /\ exactMask[c] = 0
       /\ numSamples[a] > 0
       /\ numSamples[a] < numSamples[c]

====
